---- MODULE Spec2Model ----
(***************************************************************************)
(* A model of the trail segmentation, coverage matching and grid          *)
(* aggregation of projet-synclinal (src/src/osm.rs, src/src/matching.rs,   *)
(* src/src/grid.rs), and of its export and rendering (src/src/export.rs,   *)
(* src/src/render.rs).                                                     *)
(*                                                                         *)
(* Spec         : osm.rs, parse_overpass_json over bounded responses       *)
(* MatchSpec    : matching.rs, compute_coverage over lattice polylines     *)
(* GridSpec     : compute_coverage followed by grid.rs, compute_grid       *)
(* ExportSpec   : GridSpec followed by export_json, with render_png        *)
(* SampleSpec   : discretize and discretize_linestring on one polyline     *)
(* PipelineSpec : the runs of Spec and of GridSpec                         *)
(* CacheSpec    : osm.rs, fetch_trails and clear_cache on the cache file   *)
(*                                                                         *)
(* Positions are whole metres in a local frame: a point (lon, lat) is the  *)
(* pair <<x, y>> of its metres east and north of the frame's origin. Over  *)
(* the few hundred metres modelled the great-circle distance is the        *)
(* Euclidean one, and f64 values are exact rationals.                      *)
(***************************************************************************)
EXTENDS Integers, Sequences, FiniteSets, TLC

\* ------------------------------------------------------------------ bounds

\* Total number of node-id occurrences (an element without a node list
\* counts as one) in the Overpass responses that are enumerated.
MaxNodesTotal == 4

\* The polylines of the matching runs have their vertices on two meridians
\* Pitch metres apart, at 0, Pitch, .., MaxRow*Pitch metres north.
Pitch == 7

MaxRow == 3

\* The west and east edge of the bounding box in the frame (metres); its
\* south and north edge lie on the lattice.
BoxWest == 2

BoxEast == 12

\* The smaller of the two grid cell sizes tried (metres).
SmallCell == 5

\* The number of hash seeds a run may draw; the seed fixes the iteration
\* order of its hash sets and hash maps.
HashSeedCount == 2

\* The number of fetch_trails and clear_cache calls of a run of CacheSpec.
MaxCalls == 4

\* ------------------------------------------------------------------ state

VARIABLES
    pc,            \* osm: "input" while the response is being received, then "parsed"
    is_json,       \* osm: whether the text deserializes as an OverpassResponse
    elements,      \* osm: OverpassResponse.elements
    shared_nodes,  \* osm: parse_overpass_json's shared_nodes
    trails,        \* osm: the returned Vec<Trail>
    segments,      \* osm: the returned Vec<Segment>
    result,        \* osm: "none" before the call, then "Ok", or "Err" of the
                   \* parser; of fetch_trails also "ErrRead", "ErrNetwork", "ErrWrite"
    activities,    \* matching: the loaded Vec<Activity>
    radius,        \* matching: the match radius (MATCH_THRESHOLD_M in the source)
    gps_index,     \* matching: GpsIndex {cells, point_count}
    sample_hits,   \* matching: per segment, has_point_within of each sample
    coverage,      \* matching: the returned Vec<SegmentCoverage>
    cell_size_m,   \* grid: the cell size compute_grid is called with
    grid_config,   \* grid: GridResult.config
    cells,         \* grid: GridResult.cells, indexed by cell id
    segment_cells, \* grid: GridResult.segment_cells
    km_per_cell,   \* grid: per segment, the km_per_cell of its loop iteration
    cov_stats,     \* matching: the statistics compute_coverage prints
    data_json,     \* export: the document export_json writes, and its statistics
    svg,           \* render: the paths and statistics of build_svg_overlay
    polyline,      \* discretization: the LineString sampled
    sample_step,   \* discretization: the step_m of the two calls
    samples,       \* discretization: the output of discretize and discretize_linestring
    cache_file,    \* cache: the content of OSM_CACHE_PATH, None when the file is absent
    requests,      \* cache: the number of requests sent to the Overpass API
    call_log       \* cache: the calls made so far: the function, whether it sent
                   \* a request, whether it left a cache file, and what it returned

osmVars == <<is_json, elements, shared_nodes, trails, result>>

matchVars == <<activities, radius, gps_index, sample_hits, coverage, cov_stats>>

gridVars == <<cell_size_m, grid_config, cells, segment_cells, km_per_cell>>

outVars == <<data_json, svg>>

discVars == <<polyline, sample_step, samples>>

cacheVars == <<cache_file, requests, call_log>>

vars == <<pc, is_json, elements, shared_nodes, trails, segments, result,
          activities, radius, gps_index, sample_hits, coverage,
          cell_size_m, grid_config, cells, segment_cells, km_per_cell,
          cov_stats, data_json, svg, polyline, sample_step, samples,
          cache_file, requests, call_log>>

\* Option<T>: None, Some(x)
None == <<>>

Some(x) == <<x>>

IsSome(o) == o # None

Unwrap(o) == o[1]

Max2(a, b) == IF a >= b THEN a ELSE b

\* The hash seeds of a run (std's RandomState)
HashSeeds == 0..(HashSeedCount - 1)

\* The k-th smallest element of S, k from 0
RECURSIVE KthSmallest(_, _)
KthSmallest(S, k) ==
    LET m == CHOOSE x \in S : \A y \in S : x <= y
    IN  IF k = 0 THEN m ELSE KthSmallest(S \ {m}, k - 1)

\* into_iter() of a hash set or of the keys of a hash map under seed h: an
\* order that depends on the seed alone (seed 0 and seed 1 differ on every
\* set of two elements or more)
RECURSIVE IterationOrder(_, _)
IterationOrder(S, h) ==
    IF S = {} THEN <<>>
    ELSE LET n == Cardinality(S)
             x == KthSmallest(S, h % n)
         IN  <<x>> \o IterationOrder(S \ {x}, h \div n)

\* ------------------------------------------------------------ osm.rs input

\* The node-id sequences of length n that introduce node ids in increasing
\* order after m ids are in use (node ids are opaque keys, compared only for
\* equality, so every response is a renaming of one of these).
RECURSIVE NodeSeqs(_, _)
NodeSeqs(m, n) ==
    IF n = 0 THEN {<<>>}
    ELSE UNION {{<<v>> \o t : t \in NodeSeqs(Max2(v, m), n - 1)} : v \in 1..(m + 1)}

\* OverpassLatLon of point i of element e: every point of a response is
\* given its own coordinates.
LatLon(e, i) == [lat |-> i, lon |-> e]

Geometry(e, g) == [i \in 1..g |-> LatLon(e, i)]

RECURSIVE SeqMax(_)
SeqMax(s) == IF s = <<>> THEN 0 ELSE Max2(Head(s), SeqMax(Tail(s)))

NodesOf(el) == IF IsSome(el.nodes) THEN Unwrap(el.nodes) ELSE <<>>

RECURSIVE MaxNodeId(_)
MaxNodeId(els) ==
    IF els = <<>> THEN 0 ELSE Max2(SeqMax(NodesOf(Head(els))), MaxNodeId(Tail(els)))

ElementCost(el) == Max2(1, Len(NodesOf(el)))

RECURSIVE ResponseCost(_)
ResponseCost(els) ==
    IF els = <<>> THEN 0 ELSE ElementCost(Head(els)) + ResponseCost(Tail(els))

\* The elements that may follow els in a response: ways with or without a
\* node list and with a geometry that is absent, as long as the node list or
\* one point longer; and one element that is not a way.
NextElements(els) ==
    LET e    == Len(els) + 1
        room == MaxNodesTotal - ResponseCost(els)
        m    == MaxNodeId(els)
    IN  UNION {{[elem_type |-> "way", id |-> e, nodes |-> Some(ns), geometry |-> gm] :
                    gm \in {None} \cup {Some(Geometry(e, Len(ns) + d)) : d \in 0..1}} :
                ns \in UNION {NodeSeqs(m, n) : n \in 1..room}}
        \cup (IF room >= 1
              THEN {[elem_type |-> "way", id |-> e, nodes |-> None, geometry |-> gm] :
                        gm \in {None, Some(Geometry(e, 2))}}
                   \cup {[elem_type |-> "node", id |-> e, nodes |-> Some(<<1>>), geometry |-> None]}
              ELSE {})

\* ------------------------------------------------- osm.rs parse_overpass_json

\* response.elements.iter().filter(|e| e.elem_type == "way")
Ways(els) == SelectSeq(els, LAMBDA el : el.elem_type = "way")

\* node_counts after the nodes of one way: *entry(id).or_default() += 1
RECURSIVE CountNodes(_, _)
CountNodes(counts, nodes) ==
    IF nodes = <<>> THEN counts
    ELSE LET id  == Head(nodes)
             old == IF id \in DOMAIN counts THEN counts[id] ELSE 0
         IN  CountNodes([k \in DOMAIN counts \cup {id} |->
                            IF k = id THEN old + 1 ELSE counts[k]],
                        Tail(nodes))

\* (a slip: only the ways that have a geometry are counted)
RECURSIVE NodeCountsWithGeometry(_, _)
NodeCountsWithGeometry(counts, ways) ==
    IF ways = <<>> THEN counts
    ELSE NodeCountsWithGeometry(IF IsSome(Head(ways).nodes) /\ IsSome(Head(ways).geometry)
                                THEN CountNodes(counts, Unwrap(Head(ways).nodes))
                                ELSE counts,
                                Tail(ways))

\* node_counts after all ways (those without a node list add nothing)
RECURSIVE NodeCounts(_, _)
NodeCounts(counts, ways) ==
    IF ways = <<>> THEN counts
    ELSE NodeCounts(IF IsSome(Head(ways).nodes)
                    THEN CountNodes(counts, Unwrap(Head(ways).nodes))
                    ELSE counts,
                    Tail(ways))

EmptyCounts == [k \in {} |-> 0]

\* (a slip: a node counts as shared only from its third occurrence)
IsSharedFromThree(count) == count > 2

IsShared(count) == count > 1

\* shared_nodes: the ids whose count is > 1
SharedNodes(ways, h) ==
    LET counts == NodeCounts(EmptyCounts, ways)
        order  == IterationOrder(DOMAIN counts, h)
    IN  {order[k] : k \in {j \in DOMAIN order : IsShared(counts[order[j]])}}

\* geom.iter().map(|p| (p.lon, p.lat))
Coords(geom) == [i \in DOMAIN geom |-> <<geom[i].lon, geom[i].lat>>]

\* (a slip: the node list is not compared with the geometry)
ValidWayAnyNodes(el) ==
    /\ IsSome(el.geometry)
    /\ Len(Unwrap(el.geometry)) >= 2
    /\ IsSome(el.nodes)

\* A way passes validation: Some(g) if g.len() >= 2, Some(n) if n.len() == geom.len()
ValidWay(el) ==
    /\ IsSome(el.geometry)
    /\ Len(Unwrap(el.geometry)) >= 2
    /\ IsSome(el.nodes)
    /\ Len(Unwrap(el.nodes)) = Len(Unwrap(el.geometry))

\* (a slip: a segment of two points counts as degenerate)
PushSegmentFromThree(segs, seg_coords) ==
    IF Len(seg_coords) >= 3 THEN Append(segs, [geometry |-> seg_coords]) ELSE segs

\* if seg_coords.len() >= 2 { segments.push(Segment { geometry: seg_coords }) }
PushSegment(segs, seg_coords) ==
    IF Len(seg_coords) >= 2 THEN Append(segs, [geometry |-> seg_coords]) ELSE segs

\* shared_nodes.contains(&nodes[i])
IsCut(nodes, shared, i) == nodes[i] \in shared

\* (a slip: coords[seg_start..i], the junction point left out)
CutCoordsExclusive(coords, seg_start, i) == SubSeq(coords, seg_start, i - 1)

\* coords[seg_start..=i]
CutCoords(coords, seg_start, i) == SubSeq(coords, seg_start, i)

\* (a slip: seg_start is not moved to the junction)
NextSegStartKept(seg_start, i) == seg_start

\* seg_start = i
NextSegStart(seg_start, i) == i

\* The loop `for i in 1..nodes.len() - 1` (indices here are 1-based: i runs
\* over 2..Len(nodes)-1), followed by the final segment.
RECURSIVE SplitWay(_, _, _, _, _, _)
SplitWay(coords, nodes, shared, i, seg_start, segs) ==
    IF i > Len(nodes) - 1
    THEN PushSegment(segs, SubSeq(coords, seg_start, Len(coords)))
    ELSE IF IsCut(nodes, shared, i)
         THEN SplitWay(coords, nodes, shared, i + 1, NextSegStart(seg_start, i),
                       IF i > seg_start
                       THEN PushSegment(segs, CutCoords(coords, seg_start, i))
                       ELSE segs)
         ELSE SplitWay(coords, nodes, shared, i + 1, seg_start, segs)

\* One iteration of `for elem in &ways`
ParseWay(el, shared, out) ==
    IF ~ValidWay(el) THEN out
    ELSE LET coords == Coords(Unwrap(el.geometry))
         IN  [trails   |-> Append(out.trails, [id |-> el.id, geometry |-> coords]),
              segments |-> SplitWay(coords, Unwrap(el.nodes), shared, 2, 1, out.segments)]

RECURSIVE ParseWays(_, _, _)
ParseWays(ways, shared, out) ==
    IF ways = <<>> THEN out
    ELSE ParseWays(Tail(ways), shared, ParseWay(Head(ways), shared, out))

\* serde_json::from_str(json).context("Failed to parse Overpass JSON")?
\* returns early; otherwise the ways are counted and split.
ParseOverpassJson(json_ok, els, h) ==
    LET ways   == Ways(els)
        shared == SharedNodes(ways, h)
        out    == ParseWays(ways, shared, [trails |-> <<>>, segments |-> <<>>])
    IN  IF ~json_ok
        THEN [result |-> "Err", shared_nodes |-> {}, trails |-> <<>>, segments |-> <<>>]
        ELSE [result |-> "Ok", shared_nodes |-> shared,
              trails |-> out.trails, segments |-> out.segments]

\* ----------------------------------------------------- matching.rs constants

MATCH_THRESHOLD_M == 10

TRAIL_STEP_M == 5

GPX_STEP_M == 2

GRID_CELL_M == 20

\* COVERED_THRESHOLD = 0.5, as the rational 1/2
COVERED_THRESHOLD == <<1, 2>>

\* ------------------------------------------------------------- f64 values

RECURSIVE Gcd(_, _)
Gcd(a, b) == IF b = 0 THEN a ELSE Gcd(b, a % b)

Abs(a) == IF a < 0 THEN -a ELSE a

\* The f64 n / d for d > 0, as a fraction in lowest terms.
Frac(n, d) == LET g == Gcd(Abs(n), d) IN <<n \div g, d \div g>>

\* a >= b on fractions
FracGe(a, b) == a[1] * b[2] >= b[1] * a[2]

\* ------------------------------------------------- matching.rs geometry helpers

\* A coordinate of a LineString is (x, y) = (lon, lat).
CoordX(c) == c[1]

CoordY(c) == c[2]

\* The square of haversine_m, in square metres.
Haversine2(lat1, lon1, lat2, lon2) ==
    (lat2 - lat1) * (lat2 - lat1) + (lon2 - lon1) * (lon2 - lon1)

\* The whole number r with r*r <= n < (r+1)*(r+1)
ISqrt(n) == CHOOSE r \in 0..n : r * r <= n /\ n < (r + 1) * (r + 1)

\* haversine_m of two points on one meridian or one parallel of the frame
HaversineM(lat1, lon1, lat2, lon2) ==
    IF lon1 = lon2 THEN Abs(lat2 - lat1)
    ELSE IF lat1 = lat2 THEN Abs(lon2 - lon1)
    ELSE ISqrt(Haversine2(lat1, lon1, lat2, lon2))

\* (a slip: the comparison the wrong way round)
WithinRadiusReversed(lat, lon, plat, plon, radius_m) ==
    Haversine2(lat, lon, plat, plon) >= radius_m * radius_m

\* (a slip: the comparison strict)
WithinRadiusStrict(lat, lon, plat, plon, radius_m) ==
    Haversine2(lat, lon, plat, plon) < radius_m * radius_m

\* haversine_m(lat, lon, plat, plon) <= radius_m
WithinRadius(lat, lon, plat, plon, radius_m) ==
    Haversine2(lat, lon, plat, plon) <= radius_m * radius_m

\* linestring_length_m
RECURSIVE LinestringLengthM(_)
LinestringLengthM(coords) ==
    IF Len(coords) < 2 THEN 0
    ELSE HaversineM(CoordY(coords[1]), CoordX(coords[1]),
                    CoordY(coords[2]), CoordX(coords[2]))
         + LinestringLengthM(Tail(coords))

\* The samples of one edge: `while d <= seg_len { push; d += step_m }`.
\* Returns the points pushed and the final d.
RECURSIVE StepAlong(_, _, _, _, _, _, _, _)
StepAlong(lat1, lon1, lat2, lon2, seg_len, step_m, d, points) ==
    IF d <= seg_len
    THEN LET lat == lat1 + ((lat2 - lat1) * d) \div seg_len
             lon == lon1 + ((lon2 - lon1) * d) \div seg_len
         IN  StepAlong(lat1, lon1, lat2, lon2, seg_len, step_m, d + step_m,
                       Append(points, <<lat, lon>>))
    ELSE [points |-> points, d |-> d]

\* (a slip: the residual of an edge dropped)
RemainingReset(seg_len, d, step_m) == 0

\* remaining = seg_len - (d - step_m)
Remaining(seg_len, d, step_m) == seg_len - (d - step_m)

\* `for window in coords.windows(2)` from window w on
RECURSIVE Windows(_, _, _, _, _)
Windows(coords, step_m, w, remaining, points) ==
    IF w >= Len(coords) THEN points
    ELSE LET lat1    == CoordY(coords[w])
             lon1    == CoordX(coords[w])
             lat2    == CoordY(coords[w + 1])
             lon2    == CoordX(coords[w + 1])
             seg_len == HaversineM(lat1, lon1, lat2, lon2)
             r       == StepAlong(lat1, lon1, lat2, lon2, seg_len, step_m,
                                  step_m - remaining, points)
         IN  IF seg_len = 0
             THEN Windows(coords, step_m, w + 1, remaining, points)
             ELSE Windows(coords, step_m, w + 1, Remaining(seg_len, r.d, step_m), r.points)

\* discretize: the samples (lat, lon) of a polyline
Discretize(coords, step_m) ==
    IF Len(coords) < 2 THEN <<>>
    ELSE Windows(coords, step_m, 1, 0, << <<CoordY(coords[1]), CoordX(coords[1])>> >>)

\* -------------------------------------------------------- matching.rs GpsIndex

\* The metres of longitude per metre of latitude by which lon_m =
\* lon * R * cos(lat) shifts inside the bounding box, as 1 / ShearDen.
ShearDen == 16

\* lat_lon_to_cell
LatLonToCell(lat, lon) ==
    << lat \div GRID_CELL_M, (ShearDen * lon - lat) \div (ShearDen * GRID_CELL_M) >>

\* cells.entry(cell).or_default().push((lat, lon)) for each point
RECURSIVE PushPoints(_, _)
PushPoints(map, pts) ==
    IF pts = <<>> THEN map
    ELSE LET cell == LatLonToCell(Head(pts)[1], Head(pts)[2])
             old  == IF cell \in DOMAIN map THEN map[cell] ELSE <<>>
         IN  PushPoints([k \in DOMAIN map \cup {cell} |->
                            IF k = cell THEN Append(old, Head(pts)) ELSE map[k]],
                        Tail(pts))

\* `for track in &activity.tracks`
RECURSIVE IndexTracks(_, _)
IndexTracks(index, tracks) ==
    IF tracks = <<>> THEN index
    ELSE LET interpolated == Discretize(Head(tracks), GPX_STEP_M)
         IN  IndexTracks([cells       |-> PushPoints(index.cells, interpolated),
                          point_count |-> index.point_count + Len(interpolated)],
                         Tail(tracks))

\* `for activity in activities`
RECURSIVE IndexActivities(_, _)
IndexActivities(index, acts) ==
    IF acts = <<>> THEN index
    ELSE IndexActivities(IndexTracks(index, Head(acts).tracks), Tail(acts))

EmptyIndex == [cells |-> <<>>, point_count |-> 0]

\* build_gps_index
BuildGpsIndex(acts) == IndexActivities(EmptyIndex, acts)

\* The offsets dx, dy of the neighbourhood scan: -1..=1
\* (a slip: the ranges written 0..=1)
ScanOffsetsFromZero == {0, 1}

\* for dx in -1..=1, for dy in -1..=1
ScanOffsets == {-1, 0, 1}

\* GpsIndex::has_point_within
HasPointWithin(index, lat, lon, radius_m) ==
    LET c == LatLonToCell(lat, lon)
    IN  \E dx \in ScanOffsets, dy \in ScanOffsets :
            /\ <<c[1] + dx, c[2] + dy>> \in DOMAIN index.cells
            /\ \E i \in DOMAIN index.cells[<<c[1] + dx, c[2] + dy>>] :
                    LET pt == index.cells[<<c[1] + dx, c[2] + dy>>][i]
                    IN  WithinRadius(lat, lon, pt[1], pt[2], radius_m)

\* ------------------------------------------------- matching.rs coverage

\* The filter of segment_coverage: has_point_within of every sample, in order.
SampleHits(geom, index, radius_m) ==
    LET sample_points == Discretize(geom, TRAIL_STEP_M)
    IN  [k \in DOMAIN sample_points |->
            HasPointWithin(index, sample_points[k][1], sample_points[k][2], radius_m)]

\* (a slip: the quotient taken on the integers, matched / len)
SegmentCoverageIntegerDivision(geom, index, radius_m) ==
    LET hits    == SampleHits(geom, index, radius_m)
        matched == Cardinality({k \in DOMAIN hits : hits[k]})
    IN  IF Len(hits) = 0 THEN Frac(0, 1) ELSE Frac(matched \div Len(hits), 1)

\* (a slip: no test for an empty sample list; 0.0 / 0.0 is NaN, <<0, 0>>)
SegmentCoverageUnguarded(geom, index, radius_m) ==
    LET hits    == SampleHits(geom, index, radius_m)
        matched == Cardinality({k \in DOMAIN hits : hits[k]})
    IN  IF Len(hits) = 0 THEN <<0, 0>> ELSE Frac(matched, Len(hits))

\* segment_coverage, the match radius being radius_m
SegmentCoverage(geom, index, radius_m) ==
    LET hits    == SampleHits(geom, index, radius_m)
        matched == Cardinality({k \in DOMAIN hits : hits[k]})
    IN  IF Len(hits) = 0 THEN Frac(0, 1) ELSE Frac(matched, Len(hits))

\* (a slip: the length of a segment runs on from the segment before it)
ComputeCoverageRunningLength(segs, index, radius_m) ==
    [i \in DOMAIN segs |->
        [coverage_pct |-> SegmentCoverage(segs[i].geometry, index, radius_m),
         length_m     |-> LinestringLengthM(segs[i].geometry)
                            + (IF i > 1 THEN LinestringLengthM(segs[i - 1].geometry) ELSE 0)]]

\* compute_coverage: one SegmentCoverage per segment
ComputeCoverage(segs, index, radius_m) ==
    [i \in DOMAIN segs |->
        [coverage_pct |-> SegmentCoverage(segs[i].geometry, index, radius_m),
         length_m     |-> LinestringLengthM(segs[i].geometry)]]

\* a < b on f64 values
FracLt(a, b) == a[1] * b[2] < b[1] * a[2]

\* .map(|c| c.length_m).sum::<f64>()
RECURSIVE SumLengthM(_)
SumLengthM(cov) ==
    IF cov = <<>> THEN 0 ELSE Head(cov).length_m + SumLengthM(Tail(cov))

\* The test of .filter(|c| c.coverage_pct >= COVERED_THRESHOLD)
IsCovered(c) == FracGe(c.coverage_pct, COVERED_THRESHOLD)

\* The figures compute_coverage prints: covered_count, covered_km, total_km
CoverageStats(cov) ==
    [covered_count |-> Cardinality({i \in DOMAIN cov : IsCovered(cov[i])}),
     covered_km    |-> Frac(SumLengthM(SelectSeq(cov, IsCovered)), 1000),
     total_km      |-> Frac(SumLengthM(cov), 1000)]

\* ------------------------------------------------------- matching.rs input

LatticePoints == {<<x, Pitch * r>> : x \in {0, Pitch}, r \in 0..MaxRow}

\* Polylines of one edge along a meridian or a parallel.
Edges ==
    {e \in LatticePoints \X LatticePoints :
        e[1] # e[2] /\ (e[1][1] = e[2][1] \/ e[1][2] = e[2][2])}

\* Polylines of two such edges.
Bends == {<<b[1][1], b[1][2], b[2][2]>> : b \in {c \in Edges \X Edges : c[1][2] = c[2][1]}}

\* Polylines of fewer than 2 points: the parser produces none, and
\* compute_coverage and compute_grid accept them.
Degenerate == {<<>>, << <<0, 0>> >>}

\* The segment lists: one segment of one or two edges, or two segments
\* that meet at a junction.
SegmentLists ==
    {<< [geometry |-> l] >> : l \in Edges \cup Bends}
    \cup {<< [geometry |-> <<l[1], l[2]>>], [geometry |-> <<l[2], l[3]>>] >> : l \in Bends}

\* The second track of the activities that hold two.
SecondTrack == << <<0, 0>>, <<Pitch, 0>> >>

\* The loaded activities: none, one activity of one track, or two
\* activities of three tracks, the first of which starts at the origin.
ActivityLists ==
    {<<>>}
    \cup {<< [tracks |-> <<t>>] >> : t \in Edges}
    \cup {<< [tracks |-> <<t, SecondTrack>>], [tracks |-> <<SecondTrack>>] >> :
              t \in {e \in Edges : e[1] = <<0, 0>>}}

\* The match radii tried: the source's and half of it.
Radii == {MATCH_THRESHOLD_M \div 2, MATCH_THRESHOLD_M}

\* No matching run: the state of matching.rs outside MatchSpec.
MatchIdle ==
    /\ activities = <<>>
    /\ radius = 0
    /\ gps_index = [cells |-> <<>>, point_count |-> 0]
    /\ sample_hits = <<>>
    /\ coverage = <<>>
    /\ cov_stats = <<>>

\* ------------------------------------------------------------------ grid.rs

\* The bounding box of config.rs in the frame.
BBOX_SOUTH == Pitch

BBOX_NORTH == MaxRow * Pitch

BBOX_WEST == BoxWest

BBOX_EAST == BoxEast

DISCRETIZE_STEP_M == 20

\* a + b on f64 values
FracAdd(a, b) == Frac(a[1] * b[2] + b[1] * a[2], a[2] * b[2])

\* The f64 n / d: infinite for d = 0 and n > 0, NaN for 0 / 0.
FracDiv(n, d) == IF d = 0 THEN <<(IF n = 0 THEN 0 ELSE 1), 0>> ELSE Frac(n, d)

\* x.ceil() as usize for x = n / d, d > 0 (the cast saturates at 0)
CeilAsUsize(n, d) == Max2(0, (n + d - 1) \div d)

\* x.floor() as usize for x = n / d, d > 0 (the cast saturates at 0)
FloorAsUsize(n, d) == Max2(0, n \div d)

\* GridConfig: one cell is size metres of latitude by size metres of
\* longitude at the centre of the box.
GridConfigOf(size) ==
    [cell_size_m |-> size,
     origin_lon  |-> BBOX_WEST,
     origin_lat  |-> BBOX_SOUTH,
     dlat        |-> size,
     dlon        |-> size,
     cols        |-> CeilAsUsize(BBOX_EAST - BBOX_WEST, size),
     rows        |-> CeilAsUsize(BBOX_NORTH - BBOX_SOUTH, size)]

\* (a slip: the bounding-box test left out)
PointToCellUnchecked(lat, lon, config) ==
    LET col == FloorAsUsize(lon - config.origin_lon, config.dlon)
        row == FloorAsUsize(lat - config.origin_lat, config.dlat)
    IN  IF col >= config.cols \/ row >= config.rows
        THEN None
        ELSE Some(row * config.cols + col)

\* (a slip: the id taken column by column)
PointToCellTransposed(lat, lon, config) ==
    LET col == FloorAsUsize(lon - config.origin_lon, config.dlon)
        row == FloorAsUsize(lat - config.origin_lat, config.dlat)
    IN  IF ~(BBOX_SOUTH <= lat /\ lat <= BBOX_NORTH)
           \/ ~(BBOX_WEST <= lon /\ lon <= BBOX_EAST)
        THEN None
        ELSE IF col >= config.cols \/ row >= config.rows
             THEN None
             ELSE Some(col * config.rows + row)

\* point_to_cell
PointToCell(lat, lon, config) ==
    LET col == FloorAsUsize(lon - config.origin_lon, config.dlon)
        row == FloorAsUsize(lat - config.origin_lat, config.dlat)
    IN  IF ~(BBOX_SOUTH <= lat /\ lat <= BBOX_NORTH)
           \/ ~(BBOX_WEST <= lon /\ lon <= BBOX_EAST)
        THEN None
        ELSE IF col >= config.cols \/ row >= config.rows
             THEN None
             ELSE Some(row * config.cols + col)

\* discretize_linestring: discretize, then the last point
DiscretizeLinestring(coords, step_m) ==
    IF Len(coords) < 2 THEN <<>>
    ELSE Append(Windows(coords, step_m, 1, 0,
                        << <<CoordY(coords[1]), CoordX(coords[1])>> >>),
                <<CoordY(coords[Len(coords)]), CoordX(coords[Len(coords)])>>)

\* seen_cells: the cell ids of the points that have one
SeenCells(points, config) ==
    {Unwrap(PointToCell(points[k][1], points[k][2], config)) :
        k \in {j \in DOMAIN points : IsSome(PointToCell(points[j][1], points[j][2], config))}}

\* The ids of S in ascending order
RECURSIVE SortedIds(_)
SortedIds(S) ==
    IF S = {} THEN <<>>
    ELSE LET m == CHOOSE x \in S : \A y \in S : x <= y
         IN  <<m>> \o SortedIds(S \ {m})

\* ids with x put before its first element greater than x
RECURSIVE Insert(_, _)
Insert(ids, x) ==
    IF ids = <<>> THEN <<x>>
    ELSE IF x <= Head(ids) THEN <<x>> \o ids
         ELSE <<Head(ids)>> \o Insert(Tail(ids), x)

\* (a slip: the collected ids left in iteration order)
Unsorted(ids) == ids

\* cell_ids.sort_unstable()
RECURSIVE SortUnstable(_)
SortUnstable(ids) ==
    IF ids = <<>> THEN <<>> ELSE Insert(SortUnstable(Tail(ids)), Head(ids))

\* (a slip: the length shared out over the samples, not the cells)
KmPerCellBySamples(length_m, cell_ids, points) ==
    IF cell_ids # <<>> THEN FracDiv(length_m, 1000 * Len(points)) ELSE Frac(0, 1)

\* km_per_cell: cov.length_m / 1000.0 / cell_ids.len(), 0.0 without cells
KmPerCell(length_m, cell_ids, points) ==
    IF cell_ids # <<>> THEN FracDiv(length_m, 1000 * Len(cell_ids)) ELSE Frac(0, 1)

\* (a slip: the cell counts as visited whatever the segment's coverage)
TouchCellAlwaysVisited(cell, seg_idx, is_covered, share) ==
    [cell EXCEPT
        !.has_trail   = TRUE,
        !.trail_km    = FracAdd(@, share),
        !.covered_km  = FracAdd(@, IF is_covered THEN share ELSE Frac(0, 1)),
        !.visited     = TRUE,
        !.segment_ids = IF \E j \in DOMAIN @ : @[j] = seg_idx THEN @ ELSE Append(@, seg_idx)]

\* (a slip: a second segment is not added to the cell's segment_ids)
TouchCellFirstIdOnly(cell, seg_idx, is_covered, share) ==
    [cell EXCEPT
        !.has_trail   = TRUE,
        !.trail_km    = FracAdd(@, share),
        !.covered_km  = FracAdd(@, IF is_covered THEN share ELSE Frac(0, 1)),
        !.visited     = IF is_covered THEN TRUE ELSE @,
        !.segment_ids = IF @ # <<>> THEN @ ELSE Append(@, seg_idx)]

\* The body of `for &cell_id in &cell_ids` on one cell
TouchCell(cell, seg_idx, is_covered, share) ==
    [cell EXCEPT
        !.has_trail   = TRUE,
        !.trail_km    = FracAdd(@, share),
        !.covered_km  = FracAdd(@, IF is_covered THEN share ELSE Frac(0, 1)),
        !.visited     = IF is_covered THEN TRUE ELSE @,
        !.segment_ids = IF \E j \in DOMAIN @ : @[j] = seg_idx THEN @ ELSE Append(@, seg_idx)]

\* `for &cell_id in &cell_ids`
RECURSIVE TouchCells(_, _, _, _, _)
TouchCells(cs, cell_ids, seg_idx, is_covered, share) ==
    IF cell_ids = <<>> THEN cs
    ELSE TouchCells([cs EXCEPT ![Head(cell_ids)] = TouchCell(@, seg_idx, is_covered, share)],
                    Tail(cell_ids), seg_idx, is_covered, share)

\* One iteration of `for (seg_idx, seg) in segments.iter().enumerate()`;
\* seg_idx counts from 0 in the source and from 1 here.
GridSegment(g, segs, cov, seg_idx, h) ==
    LET is_covered == FracGe(cov[seg_idx].coverage_pct, COVERED_THRESHOLD)
        points     == DiscretizeLinestring(segs[seg_idx].geometry, DISCRETIZE_STEP_M)
        cell_ids   == SortUnstable(IterationOrder(SeenCells(points, g.config), h))
        share      == KmPerCell(cov[seg_idx].length_m, cell_ids, points)
    IN  [config        |-> g.config,
         cells         |-> TouchCells(g.cells, cell_ids, seg_idx, is_covered, share),
         segment_cells |-> Append(g.segment_cells, cell_ids),
         km_per_cell   |-> Append(g.km_per_cell, share)]

RECURSIVE GridSegments(_, _, _, _, _)
GridSegments(g, segs, cov, seg_idx, h) ==
    IF seg_idx > Len(segs) THEN g
    ELSE GridSegments(GridSegment(g, segs, cov, seg_idx, h), segs, cov, seg_idx + 1, h)

\* The cells as initialized, by cell id
InitialCells(config) ==
    [id \in 0..(config.cols * config.rows - 1) |->
        [id |-> id, row |-> id \div config.cols, col |-> id % config.cols,
         has_trail |-> FALSE, visited |-> FALSE,
         trail_km |-> Frac(0, 1), covered_km |-> Frac(0, 1), segment_ids |-> <<>>]]

\* compute_grid
ComputeGrid(segs, cov, size, h) ==
    LET config == GridConfigOf(size)
    IN  GridSegments([config |-> config, cells |-> InitialCells(config),
                      segment_cells |-> <<>>, km_per_cell |-> <<>>],
                     segs, cov, 1, h)

\* The cell sizes compute_grid is called with.
CellSizes == {SmallCell, Pitch}

\* No grid yet.
GridIdle ==
    /\ cell_size_m = 0
    /\ grid_config = <<>>
    /\ cells = <<>>
    /\ segment_cells = <<>>
    /\ km_per_cell = <<>>

\* ---------------------------------------------------------------- export.rs

\* x.round() for x = n / d >= 0, d > 0: to the nearest, halves upwards
Round(n, d) == (2 * n + d) \div (2 * d)

\* (f * scale).round() / scale
RoundTo(f, scale) == Frac(Round(f[1] * scale, f[2]), scale)

\* build_segment_features; "id" counts from 0 in the source and from 1 here
BuildSegmentFeatures(segs, cov, seg_cells) ==
    [i \in DOMAIN segs |->
        [id           |-> i,
         points       |-> Len(segs[i].geometry),
         length_m     |-> RoundTo(Frac(cov[i].length_m, 1), 10),
         coverage_pct |-> RoundTo(cov[i].coverage_pct, 100),
         covered      |-> FracGe(cov[i].coverage_pct, COVERED_THRESHOLD),
         cells        |-> seg_cells[i]]]

\* The feature of one cell
CellFeature(cell) ==
    [id          |-> cell.id,
     has_trail   |-> cell.has_trail,
     visited     |-> cell.visited,
     active      |-> TRUE,
     trail_km    |-> RoundTo(cell.trail_km, 1000),
     covered_km  |-> RoundTo(cell.covered_km, 1000),
     segment_ids |-> cell.segment_ids]

\* (a slip: every cell exported)
KeptCellAny(cell) == TRUE

\* The test of .filter(|c| c.has_trail)
KeptCell(cell) == cell.has_trail

\* build_cell_features from cell id `from` on
RECURSIVE BuildCellFeatures(_, _)
BuildCellFeatures(cs, from) ==
    IF from \notin DOMAIN cs THEN <<>>
    ELSE (IF KeptCell(cs[from]) THEN <<CellFeature(cs[from])>> ELSE <<>>)
         \o BuildCellFeatures(cs, from + 1)

\* export_json: the document and the figures it prints
ExportJson(segs, cov, config, cs, seg_cells) ==
    [grid           |-> config,
     segments       |-> BuildSegmentFeatures(segs, cov, seg_cells),
     cells          |-> BuildCellFeatures(cs, 0),
     total_seg_km   |-> Frac(SumLengthM(cov), 1000),
     covered_seg_km |-> Frac(SumLengthM(SelectSeq(cov, IsCovered)), 1000),
     trail_cells    |-> Cardinality({c \in DOMAIN cs : cs[c].has_trail}),
     visited_cells  |-> Cardinality({c \in DOMAIN cs : cs[c].has_trail /\ cs[c].visited})]

\* ---------------------------------------------------------------- render.rs

\* linestring_to_path: the number of points of the path, the projection to
\* pixels left out
LinestringToPath(coords) == IF Len(coords) < 2 THEN None ELSE Some(Len(coords))

\* coverage.get(i).map(|c| c.coverage_pct).unwrap_or(0.0)
CoverageOr0(cov, i) == IF i \in DOMAIN cov THEN cov[i].coverage_pct ELSE Frac(0, 1)

\* (a slip: the second pass skips below or at the threshold)
SkippedInPass2Strict(cov) == ~FracLt(COVERED_THRESHOLD, cov)

\* `if cov >= COVERED_THRESHOLD { continue; }`
SkippedInPass1(cov) == FracGe(cov, COVERED_THRESHOLD)

\* `if cov < COVERED_THRESHOLD { continue; }`
SkippedInPass2(cov) == FracLt(cov, COVERED_THRESHOLD)

\* Pass 1 from segment i on: the uncovered segments
RECURSIVE Pass1(_, _, _)
Pass1(segs, cov, i) ==
    IF i > Len(segs) THEN <<>>
    ELSE (IF ~SkippedInPass1(CoverageOr0(cov, i)) /\ IsSome(LinestringToPath(segs[i].geometry))
          THEN << [stroke |-> "white", seg |-> i,
                   d |-> Unwrap(LinestringToPath(segs[i].geometry))] >>
          ELSE <<>>)
         \o Pass1(segs, cov, i + 1)

\* Pass 2 from segment i on: the covered segments
RECURSIVE Pass2(_, _, _)
Pass2(segs, cov, i) ==
    IF i > Len(segs) THEN <<>>
    ELSE (IF ~SkippedInPass2(CoverageOr0(cov, i)) /\ IsSome(LinestringToPath(segs[i].geometry))
          THEN << [stroke |-> "#FF4500", seg |-> i,
                   d |-> Unwrap(LinestringToPath(segs[i].geometry))] >>
          ELSE <<>>)
         \o Pass2(segs, cov, i + 1)

\* build_svg_overlay: the paths in document order and the figures of the
\* stats box
BuildSvgOverlay(segs, cov) ==
    [paths      |-> Pass1(segs, cov, 1) \o Pass2(segs, cov, 1),
     total_km   |-> Frac(SumLengthM(cov), 1000),
     covered_km |-> Frac(SumLengthM(SelectSeq(cov, IsCovered)), 1000)]

\* Nothing exported or rendered yet.
OutIdle ==
    /\ data_json = None
    /\ svg = None
    /\ polyline = <<>>
    /\ sample_step = 0
    /\ samples = None

\* No call of fetch_trails or clear_cache: the state of the cache outside
\* CacheSpec.
CacheIdle ==
    /\ cache_file = None
    /\ requests = 0
    /\ call_log = <<>>

\* ------------------------------------------------------------ osm.rs actions

\* The response of the scenario: a way of 5 nodes whose node 3 is also the
\* last node of another way.
ScenarioElements ==
    << [elem_type |-> "way", id |-> 1, nodes |-> Some(<<1, 2, 3, 4, 5>>),
        geometry |-> Some(Geometry(1, 5))],
       [elem_type |-> "way", id |-> 2, nodes |-> Some(<<6, 3>>),
        geometry |-> Some(Geometry(2, 2))] >>

OsmInit ==
    /\ pc = "input"
    /\ \/ is_json = TRUE /\ elements \in {<<>>, ScenarioElements}
       \/ is_json = FALSE /\ elements = <<>>
    /\ shared_nodes = {}
    /\ trails = <<>>
    /\ segments = <<>>
    /\ result = "none"

\* One more element of the response body arrives.
AddElement ==
    /\ pc = "input"
    /\ is_json
    /\ \E el \in NextElements(elements) : elements' = Append(elements, el)
    /\ UNCHANGED <<pc, is_json, shared_nodes, trails, segments, result>>
    /\ UNCHANGED <<matchVars, gridVars, outVars, discVars, cacheVars>>

\* parse_overpass_json runs on the response.
Parse ==
    /\ pc = "input"
    /\ \E h \in HashSeeds :
           LET r == ParseOverpassJson(is_json, elements, h)
           IN  /\ shared_nodes' = r.shared_nodes
               /\ trails' = r.trails
               /\ segments' = r.segments
               /\ result' = r.result
    /\ pc' = "parsed"
    /\ UNCHANGED <<is_json, elements>>
    /\ UNCHANGED <<matchVars, gridVars, outVars, discVars, cacheVars>>

Init == OsmInit /\ MatchIdle /\ GridIdle /\ OutIdle /\ CacheIdle

Next == AddElement \/ Parse

Spec == Init /\ [][Next]_vars

\* --------------------------------------------------------- osm.rs cache

\* The response bodies the Overpass API may send: a text that is not an
\* OverpassResponse, one without elements, and the scenario's. `whole`
\* tells a body as it was sent from what is left of one cut short.
Bodies ==
    {[is_json |-> FALSE, elements |-> <<>>, whole |-> TRUE],
     [is_json |-> TRUE, elements |-> <<>>, whole |-> TRUE],
     [is_json |-> TRUE, elements |-> ScenarioElements, whole |-> TRUE]}

\* What a failed fs::write may leave of the body: a text cut short, which
\* does not deserialize
Truncated(body) == [is_json |-> FALSE, elements |-> <<>>, whole |-> FALSE]

\* (a slip: the cache never found)
CacheExistsNever(file) == FALSE

\* cache_path.exists()
CacheExists(file) == file # None

\* (a slip: the body cached only once it has parsed)
WrittenIfParsed(body) == IF body.is_json THEN Some(body) ELSE None

\* fs::write(cache_path, &body), before parse_overpass_json(&body)
Written(body) == Some(body)

\* return parse_overpass_json(text)
ParseReturns(text, h) ==
    LET r == ParseOverpassJson(text.is_json, text.elements, h)
    IN  /\ is_json' = text.is_json
        /\ elements' = text.elements
        /\ shared_nodes' = r.shared_nodes
        /\ trails' = r.trails
        /\ segments' = r.segments
        /\ result' = r.result

\* An early return of fetch_trails through `?`, before the parser runs
FetchFails(err) ==
    /\ result' = err
    /\ shared_nodes' = {}
    /\ trails' = <<>>
    /\ segments' = <<>>
    /\ UNCHANGED <<is_json, elements>>

\* An entry of the log of calls
Called(function, sent, file, returned) ==
    [call |-> function, sent |-> sent, file |-> file, returned |-> returned]

\* Between two calls; the cache file may be there from an earlier run.
CacheInit ==
    /\ pc = "cache"
    /\ is_json = FALSE
    /\ elements = <<>>
    /\ shared_nodes = {}
    /\ trails = <<>>
    /\ segments = <<>>
    /\ result = "none"
    /\ MatchIdle
    /\ GridIdle
    /\ OutIdle
    /\ cache_file \in {None} \cup {Some(body) : body \in Bodies}
    /\ requests = 0
    /\ call_log = <<>>

\* fetch_trails(&client). With the file there, it is read (the read may
\* fail) and parsed. Without it, one request is sent; send() or text() may
\* fail; create_dir_all or fs::write may fail, leaving no file or a text
\* cut short; else the body is in the file and is parsed.
FetchTrails ==
    /\ pc = "cache"
    /\ Len(call_log) < MaxCalls
    /\ IF CacheExists(cache_file)
       THEN /\ \/ FetchFails("ErrRead")
               \/ \E h \in HashSeeds : ParseReturns(Unwrap(cache_file), h)
            /\ UNCHANGED <<cache_file, requests>>
       ELSE /\ requests' = requests + 1
            /\ \/ FetchFails("ErrNetwork") /\ UNCHANGED cache_file
               \/ \E body \in Bodies :
                      \/ /\ FetchFails("ErrWrite")
                         /\ cache_file' \in {cache_file, Some(Truncated(body))}
                      \/ /\ cache_file' = Written(body)
                         /\ \E h \in HashSeeds : ParseReturns(body, h)
    /\ call_log' = Append(call_log, Called("fetch_trails", requests' # requests,
                                            cache_file' # None, result'))
    /\ UNCHANGED <<pc, matchVars, gridVars, outVars, discVars>>

\* clear_cache(): remove_file on an existing file; a failure is a warning
\* and the file stays.
ClearCache ==
    /\ pc = "cache"
    /\ Len(call_log) < MaxCalls
    /\ cache_file' \in {None, cache_file}
    /\ call_log' = Append(call_log, Called("clear_cache", FALSE, cache_file' # None, "()"))
    /\ UNCHANGED <<pc, segments, requests, osmVars, matchVars, gridVars, outVars, discVars>>

CacheNext == FetchTrails \/ ClearCache

CacheSpec == CacheInit /\ [][CacheNext]_vars

\* ------------------------------------------------------- matching.rs actions

\* fetch_trails and load_activities have returned.
MatchInit ==
    /\ pc = "loaded"
    /\ is_json = TRUE
    /\ elements = <<>>
    /\ shared_nodes = {}
    /\ trails = <<>>
    /\ result = "Ok"
    /\ segments \in SegmentLists \cup {<< [geometry |-> l] >> : l \in Degenerate}
    /\ activities \in ActivityLists
    /\ radius \in Radii
    /\ gps_index = EmptyIndex
    /\ sample_hits = <<>>
    /\ coverage = <<>>
    /\ cov_stats = <<>>
    /\ GridIdle
    /\ OutIdle
    /\ CacheIdle

\* compute_coverage(&segments, &activities)
Coverage ==
    /\ pc = "loaded"
    /\ LET index == BuildGpsIndex(activities)
       IN  /\ gps_index' = index
           /\ sample_hits' = [i \in DOMAIN segments |->
                                 SampleHits(segments[i].geometry, index, radius)]
           /\ coverage' = ComputeCoverage(segments, index, radius)
           /\ cov_stats' = CoverageStats(coverage')
    /\ pc' = "matched"
    /\ UNCHANGED <<segments, activities, radius>>
    /\ UNCHANGED <<osmVars, gridVars, outVars, discVars, cacheVars>>

\* The same run with a larger match radius.
Widen ==
    /\ pc = "matched"
    /\ \E r \in Radii :
            /\ r > radius
            /\ radius' = r
            /\ sample_hits' = [i \in DOMAIN segments |->
                                  SampleHits(segments[i].geometry, gps_index, r)]
            /\ coverage' = ComputeCoverage(segments, gps_index, r)
            /\ cov_stats' = CoverageStats(coverage')
    /\ UNCHANGED <<pc, segments, activities, gps_index>>
    /\ UNCHANGED <<osmVars, gridVars, outVars, discVars, cacheVars>>

MatchNext == Coverage \/ Widen

MatchSpec == MatchInit /\ [][MatchNext]_vars

\* ----------------------------------------------------------- grid.rs actions

\* The Export command has loaded segments and activities.
\* The activities of the grid runs: none, or one track along the east
\* meridian of the lattice.
GridActivityLists ==
    {a \in ActivityLists :
        Len(a) <= 1 /\ \A k \in DOMAIN a : CoordX(a[k].tracks[1][1]) = Pitch
                                           /\ CoordX(a[k].tracks[1][2]) = Pitch}

GridInit ==
    /\ MatchInit
    /\ segments \in SegmentLists
    /\ activities \in GridActivityLists
    /\ radius = MATCH_THRESHOLD_M

\* compute_grid(&segments, &coverage, grid_size)
Grid ==
    /\ pc = "matched"
    /\ \E size \in CellSizes, h \in HashSeeds :
            LET g == ComputeGrid(segments, coverage, size, h)
            IN  /\ cell_size_m' = size
                /\ grid_config' = g.config
                /\ cells' = g.cells
                /\ segment_cells' = g.segment_cells
                /\ km_per_cell' = g.km_per_cell
    /\ pc' = "gridded"
    /\ UNCHANGED <<segments, osmVars, matchVars, outVars, discVars, cacheVars>>

GridNext == Coverage \/ Grid

GridSpec == GridInit /\ [][GridNext]_vars

\* ------------------------------------------------- export and render actions

\* export_json(&segments, &coverage, &grid_result, &output)
Export ==
    /\ pc = "gridded"
    /\ data_json' = Some(ExportJson(segments, coverage, grid_config, cells, segment_cells))
    /\ pc' = "exported"
    /\ UNCHANGED <<segments, osmVars, matchVars, gridVars, svg, discVars, cacheVars>>

\* render_png(&tile_map, &segments, &coverage, output), the Render command
\* run on the same segments and activities
Render ==
    /\ pc \in {"matched", "gridded", "exported"}
    /\ svg = None
    /\ svg' = Some(BuildSvgOverlay(segments, coverage))
    /\ UNCHANGED <<pc, segments, osmVars, matchVars, gridVars, data_json, discVars, cacheVars>>

ExportNext == Coverage \/ Grid \/ Export \/ Render

ExportSpec == GridInit /\ [][ExportNext]_vars

\* ------------------------------------------------------ discretization runs

\* The steps the source samples with: tracks, trail segments, grid.
Steps == {GPX_STEP_M, TRAIL_STEP_M, DISCRETIZE_STEP_M}

\* A polyline of the lattice and a step.
SampleInit ==
    /\ pc = "polyline"
    /\ is_json = TRUE
    /\ elements = <<>>
    /\ shared_nodes = {}
    /\ trails = <<>>
    /\ segments = <<>>
    /\ result = "none"
    /\ MatchIdle
    /\ GridIdle
    /\ data_json = None
    /\ svg = None
    /\ polyline \in Edges \cup Bends
    /\ sample_step \in Steps
    /\ samples = None
    /\ CacheIdle

\* discretize(geom, step_m) and discretize_linestring(geom, step_m)
Sample ==
    /\ pc = "polyline"
    /\ samples' = Some([matcher |-> Discretize(polyline, sample_step),
                        grid    |-> DiscretizeLinestring(polyline, sample_step)])
    /\ pc' = "sampled"
    /\ UNCHANGED <<segments, polyline, sample_step, data_json, svg>>
    /\ UNCHANGED <<osmVars, matchVars, gridVars, cacheVars>>

SampleNext == Sample

SampleSpec == SampleInit /\ [][SampleNext]_vars

\* ------------------------------------------------------------ cache claims

\* The number of calls made
calls == Len(call_log)

\* The function called last
last_call == IF call_log = <<>> THEN "none" ELSE call_log[Len(call_log)].call

\* The step is a call of fetch_trails
FetchStep ==
    /\ Len(call_log') = Len(call_log) + 1
    /\ call_log'[Len(call_log')].call = "fetch_trails"

\* The step is a call of clear_cache
ClearStep ==
    /\ Len(call_log') = Len(call_log) + 1
    /\ call_log'[Len(call_log')].call = "clear_cache"

\* The call has parsed `text` and returns what the parser makes of it.
ReturnsParseOf(text) ==
    LET r == ParseOverpassJson(text.is_json, text.elements, 0)
    IN  /\ is_json' = text.is_json
        /\ elements' = text.elements
        /\ result' = r.result
        /\ trails' = r.trails
        /\ segments' = r.segments

\* C23 as the claim states it: after a fetch_trails call that has parsed
\* the content of the cache file, written or read by it, a fetch_trails call
\* returns the parse of the file's content and sends no request; and the first fetch_trails call after a clear_cache
\* call sends exactly one request and leaves the cache file written.
C23_AsStated ==
    [][/\ (FetchStep /\ last_call = "fetch_trails" /\ result \in {"Ok", "Err"}
               /\ cache_file # None)
            => (requests' = requests /\ ReturnsParseOf(Unwrap(cache_file)))
       /\ (FetchStep /\ last_call = "clear_cache")
            => (requests' = requests + 1 /\ cache_file' # None)]_vars

\* C23, amended: while the cache file exists a fetch_trails call sends no
\* request, leaves the file as it is and, unless reading it fails, returns
\* the parse of its content; a fetch_trails call that finds no file sends
\* exactly one request, leaves no file when the request fails, and when it
\* comes to parse returns the parse of the body it has written to the file;
\* clear_cache sends no request and removes the file or, failing that,
\* leaves it as it is.
C23_SingleSlotCache ==
    [][/\ (FetchStep /\ cache_file # None)
            => /\ requests' = requests
               /\ cache_file' = cache_file
               /\ result' \in {"Ok", "Err", "ErrRead"}
               /\ result' # "ErrRead" => ReturnsParseOf(Unwrap(cache_file))
       /\ (FetchStep /\ cache_file = None)
            => /\ requests' = requests + 1
               /\ result' \in {"Ok", "Err", "ErrNetwork", "ErrWrite"}
               /\ result' = "ErrNetwork" => cache_file' = None
               /\ result' \in {"Ok", "Err"}
                      => (cache_file' # None /\ ReturnsParseOf(Unwrap(cache_file')))
       /\ ClearStep
            => /\ requests' = requests
               /\ cache_file' \in {None, cache_file}]_vars

\* C23's case: a fetch_trails call wrote the cache file, the next read it
\* without a request, clear_cache removed it, and the fetch_trails call
\* after that has sent the second request, written the file and parsed the
\* body into segments.
C23_Witness ==
    /\ calls = 4
    /\ call_log[1] = Called("fetch_trails", TRUE, TRUE, "Ok")
    /\ call_log[2] = Called("fetch_trails", FALSE, TRUE, "Ok")
    /\ call_log[3] = Called("clear_cache", FALSE, FALSE, "()")
    /\ call_log[4] = Called("fetch_trails", TRUE, TRUE, "Ok")
    /\ requests = 2
    /\ cache_file # None
    /\ result = "Ok"
    /\ segments # <<>>

\* C26 as the claim states it: a fetch_trails call whose fetched body fails
\* to parse returns the parse error and leaves the body in the cache file;
\* and after a fetch_trails call that returned the parse error with the
\* file there, a fetch_trails call returns the parse error again, sends no
\* request and leaves the file.
C26_AsStated ==
    [][/\ (FetchStep /\ cache_file = None /\ result' = "Err")
            => (cache_file' # None /\ ~Unwrap(cache_file').is_json)
       /\ (FetchStep /\ last_call = "fetch_trails" /\ result = "Err"
               /\ cache_file # None)
            => /\ result' = "Err"
               /\ requests' = requests
               /\ cache_file' = cache_file]_vars

\* C26, amended: a fetch_trails call whose fetched body fails to parse
\* returns the parse error and leaves the body in the cache file; while a
\* file that does not parse is there, a fetch_trails call sends no request,
\* leaves the file and returns the parse error, or a read error when the
\* file cannot be read; and only a clear_cache call that removes the file
\* ends this.
C26_UnparsedBodyStaysCached ==
    [][/\ (FetchStep /\ cache_file = None /\ result' = "Err")
            => /\ cache_file' # None
               /\ ~Unwrap(cache_file').is_json
               /\ ReturnsParseOf(Unwrap(cache_file'))
       /\ (FetchStep /\ cache_file # None /\ ~Unwrap(cache_file).is_json)
            => /\ result' \in {"Err", "ErrRead"}
               /\ requests' = requests
               /\ cache_file' = cache_file
       /\ (cache_file # None /\ cache_file' # cache_file)
            => (ClearStep /\ cache_file' = None)]_vars

\* C26's case: the one body fetched did not parse, it is in the cache file,
\* and a later fetch_trails call has returned the parse error.
C26_Witness ==
    /\ calls = 2
    /\ call_log[1] = Called("fetch_trails", TRUE, TRUE, "Err")
    /\ call_log[2] = Called("fetch_trails", FALSE, TRUE, "Err")
    /\ requests = 1
    /\ result = "Err"
    /\ cache_file # None
    /\ ~Unwrap(cache_file).is_json
    /\ Unwrap(cache_file).whole

\* ------------------------------------------------------------ pipeline runs

\* A run of segmentation, or a run of matching and aggregation.
PipelineInit == Init \/ GridInit

PipelineNext == AddElement \/ Parse \/ Coverage \/ Grid

PipelineSpec == PipelineInit /\ [][PipelineNext]_vars

\* C13: the outputs are those of every other run on the same inputs,
\* whatever hash seed that run draws: the parser's shared nodes, trails and
\* segments, the coverage entries, and the grid's cells, segment_cells and
\* shares; the order of segment_cells is the ascending one.
C13_Deterministic ==
    /\ pc = "parsed" =>
           \A h \in HashSeeds :
               LET r == ParseOverpassJson(is_json, elements, h)
               IN  /\ result = r.result
                   /\ shared_nodes = r.shared_nodes
                   /\ trails = r.trails
                   /\ segments = r.segments
    /\ pc \in {"matched", "gridded"} =>
           coverage = ComputeCoverage(segments, BuildGpsIndex(activities), radius)
    /\ pc = "gridded" =>
           /\ \A h \in HashSeeds :
                  LET g == ComputeGrid(segments, coverage, cell_size_m, h)
                  IN  /\ grid_config = g.config
                      /\ cells = g.cells
                      /\ segment_cells = g.segment_cells
                      /\ km_per_cell = g.km_per_cell
           /\ \A i \in DOMAIN segments :
                  segment_cells[i] = SortedIds({segment_cells[i][k] : k \in DOMAIN segment_cells[i]})

\* C13's case: a grid run in which some seed iterates the cells of a
\* segment in an order other than the one returned.
C13_Witness ==
    /\ pc = "gridded"
    /\ \E i \in DOMAIN segments : \E h \in HashSeeds :
           IterationOrder({segment_cells[i][k] : k \in DOMAIN segment_cells[i]}, h)
               # segment_cells[i]

\* ------------------------------------------------- discretization properties

\* The first and the last point of the polyline, as (lat, lon)
FirstPoint == <<CoordY(polyline[1]), CoordX(polyline[1])>>

LastPoint == <<CoordY(polyline[Len(polyline)]), CoordX(polyline[Len(polyline)])>>

\* C14 as the claim states it: the output of the matcher's discretization
\* and of the grid's both hold the polyline's first point and its last
\* point.
C14_AsStated ==
    pc = "sampled" =>
        /\ \E k \in DOMAIN Unwrap(samples).matcher : Unwrap(samples).matcher[k] = FirstPoint
        /\ \E k \in DOMAIN Unwrap(samples).matcher : Unwrap(samples).matcher[k] = LastPoint
        /\ \E k \in DOMAIN Unwrap(samples).grid : Unwrap(samples).grid[k] = FirstPoint
        /\ \E k \in DOMAIN Unwrap(samples).grid : Unwrap(samples).grid[k] = LastPoint

\* The length of the edge from vertex w of the polyline to the next (the
\* edges of the lattice run along a meridian or a parallel)
EdgeLen(w) ==
    Abs(CoordX(polyline[w + 1]) - CoordX(polyline[w]))
        + Abs(CoordY(polyline[w + 1]) - CoordY(polyline[w]))

\* The length of the polyline from vertex w on
RECURSIVE LengthFrom(_)
LengthFrom(w) == IF w >= Len(polyline) THEN 0 ELSE EdgeLen(w) + LengthFrom(w + 1)

\* The point (lat, lon) at arc length s after vertex w of the polyline
RECURSIVE PointAt(_, _)
PointAt(w, s) ==
    IF s > EdgeLen(w) /\ w + 1 < Len(polyline)
    THEN PointAt(w + 1, s - EdgeLen(w))
    ELSE << CoordY(polyline[w])
              + ((CoordY(polyline[w + 1]) - CoordY(polyline[w])) * s) \div EdgeLen(w),
            CoordX(polyline[w])
              + ((CoordX(polyline[w + 1]) - CoordX(polyline[w])) * s) \div EdgeLen(w) >>

\* C15: the matcher's output is the first point followed, for every k >= 1
\* with k * step_m within the total length, by the point at arc length
\* k * step_m from the start, in that order, across the vertices; the
\* grid's output is the same followed by the last point, so both are
\* non-decreasing in arc length.
C15_SamplesAtMultiplesOfStep ==
    pc = "sampled" =>
        LET matcher == Unwrap(samples).matcher
            n       == LengthFrom(1) \div sample_step
        IN  /\ Len(matcher) = n + 1
            /\ matcher[1] = FirstPoint
            /\ \A k \in 1..n : matcher[k + 1] = PointAt(1, k * sample_step)
            /\ Unwrap(samples).grid = Append(matcher, LastPoint)

\* C15's case: a sample on the second edge of a polyline whose first edge
\* is not a whole number of steps long.
C15_Witness ==
    /\ pc = "sampled"
    /\ Len(polyline) = 3
    /\ EdgeLen(1) % sample_step # 0
    /\ EdgeLen(1) > sample_step
    /\ Len(Unwrap(samples).matcher) > 1 + EdgeLen(1) \div sample_step

\* ----------------------------------------------------------- grid properties

\* The samples compute_grid takes of segment i, as <<lat, lon>>
GridSamples(i) == DiscretizeLinestring(segments[i].geometry, DISCRETIZE_STEP_M)

\* A sample outside the bounding box
OutsideBox(p) ==
    p[1] < BBOX_SOUTH \/ p[1] > BBOX_NORTH \/ p[2] < BBOX_WEST \/ p[2] > BBOX_EAST

\* Segment i's own length in km
LengthKm(i) == Frac(LinestringLengthM(segments[i].geometry), 1000)

\* The sum of the f64 values of a sequence
RECURSIVE FracSum(_)
FracSum(fs) == IF fs = <<>> THEN Frac(0, 1) ELSE FracAdd(Head(fs), FracSum(Tail(fs)))

\* What segment i adds to the trail_km of the cells it touches, summed
AddedKm(i) == FracSum([k \in DOMAIN segment_cells[i] |-> km_per_cell[i]])

\* The segments that touch at least one cell
Touching == {i \in DOMAIN segments : segment_cells[i] # <<>>}

\* The segments that touch cell c
TouchingCell(c) ==
    {i \in DOMAIN segments : \E k \in DOMAIN segment_cells[i] : segment_cells[i][k] = c}

\* The sum of the shares of the segments of S, in index order
RECURSIVE SumShares(_)
SumShares(S) ==
    IF S = {} THEN Frac(0, 1)
    ELSE LET m == CHOOSE x \in S : \A y \in S : x <= y
         IN  FracAdd(km_per_cell[m], SumShares(S \ {m}))

\* The lengths in km of the segments of S, in index order
RECURSIVE SortedKm(_)
SortedKm(S) ==
    IF S = {} THEN <<>>
    ELSE LET m == CHOOSE x \in S : \A y \in S : x <= y
         IN  <<LengthKm(m)>> \o SortedKm(S \ {m})

\* The sequence s without its i-th element
Without(s, i) == SubSeq(s, 1, i - 1) \o SubSeq(s, i + 1, Len(s))

\* C6 as the claim states it: for every segment, the shares it adds to the
\* cells it touches sum to the segment's own length in km.
C6_AsStated ==
    pc = "gridded" => \A i \in DOMAIN segments : AddedKm(i) = LengthKm(i)

\* C6 (amended): for every segment that touches at least one cell, the
\* cells it touches are distinct, its share is its length in km divided by
\* their number, and the shares it adds sum to its own length in km; the
\* trail_km of all cells sums to the lengths of the segments that touch a
\* cell.
C6_LengthConservedOverTouchedCells ==
    pc = "gridded" =>
        /\ \A i \in Touching :
               /\ \A j, k \in DOMAIN segment_cells[i] :
                      j # k => segment_cells[i][j] # segment_cells[i][k]
               /\ km_per_cell[i] = Frac(LinestringLengthM(segments[i].geometry),
                                        1000 * Len(segment_cells[i]))
               /\ AddedKm(i) = LengthKm(i)
        /\ FracSum([k \in 1..grid_config.cols * grid_config.rows |-> cells[k - 1].trail_km])
               = FracSum(SortedKm(Touching))

\* C6's case: a segment that shares its length over two cells or more and
\* has more samples than cells.
C6_Witness ==
    /\ pc = "gridded"
    /\ \E i \in Touching : /\ Len(segment_cells[i]) >= 2
                           /\ Len(GridSamples(i)) > Len(segment_cells[i])

\* C7: a segment all of whose samples lie outside the bounding box has an
\* empty segment_cells entry and a share of 0.0, and the has_trail,
\* visited, trail_km, covered_km and segment_ids of every cell are what
\* compute_grid gives them without that segment.
C7_OutsideSegmentTouchesNothing ==
    pc = "gridded" =>
        \A i \in DOMAIN segments :
            (\A k \in DOMAIN GridSamples(i) : OutsideBox(GridSamples(i)[k])) =>
                /\ segment_cells[i] = <<>>
                /\ km_per_cell[i] = <<0, 1>>
                /\ LET rest == ComputeGrid(Without(segments, i), Without(coverage, i),
                                           cell_size_m, 0).cells
                   IN  \A c \in DOMAIN cells :
                           /\ cells[c].has_trail = rest[c].has_trail
                           /\ cells[c].visited = rest[c].visited
                           /\ cells[c].trail_km = rest[c].trail_km
                           /\ cells[c].covered_km = rest[c].covered_km
                           /\ Len(cells[c].segment_ids) = Len(rest[c].segment_ids)
                           /\ \A j \in DOMAIN cells[c].segment_ids :
                                  cells[c].segment_ids[j] # i

\* C7's case: a covered segment of positive length wholly outside the box,
\* next to a segment that touches a cell.
C7_Witness ==
    /\ pc = "gridded"
    /\ \E i \in DOMAIN segments :
           /\ \A k \in DOMAIN GridSamples(i) : OutsideBox(GridSamples(i)[k])
           /\ coverage[i].length_m > 0
           /\ FracGe(coverage[i].coverage_pct, COVERED_THRESHOLD)
           /\ Touching # {}

\* C18: no cell lists a segment twice, and segment i is in the segment_ids
\* of cell c exactly when c is in segment_cells[i].
C18_SegmentIdsMatchSegmentCells ==
    pc = "gridded" =>
        \A c \in DOMAIN cells :
            /\ \A j, k \in DOMAIN cells[c].segment_ids :
                   j # k => cells[c].segment_ids[j] # cells[c].segment_ids[k]
            /\ \A i \in DOMAIN segments :
                   (\E j \in DOMAIN cells[c].segment_ids : cells[c].segment_ids[j] = i)
                       <=> (\E k \in DOMAIN segment_cells[i] : segment_cells[i][k] = c)
            /\ \A j \in DOMAIN cells[c].segment_ids :
                   cells[c].segment_ids[j] \in DOMAIN segments

\* C18's case: a cell that two segments touch, one of which touches
\* another cell as well.
C18_Witness ==
    /\ pc = "gridded"
    /\ \E c \in DOMAIN cells :
           /\ Len(cells[c].segment_ids) = 2
           /\ \E i \in DOMAIN segments : Len(segment_cells[i]) >= 2 /\ i \in TouchingCell(c)

\* C20: for every cell, has_trail holds iff a segment touches it, visited
\* iff a covered segment touches it, trail_km is the sum of the shares of
\* the segments that touch it and covered_km that of the covered ones; so
\* visited implies has_trail, covered_km is at most trail_km, and
\* covered_km is 0 where visited is false.
C20_CellAccumulation ==
    pc = "gridded" =>
        \A c \in DOMAIN cells :
            /\ cells[c].has_trail <=> TouchingCell(c) # {}
            /\ cells[c].visited <=>
                   \E i \in TouchingCell(c) : FracGe(coverage[i].coverage_pct, COVERED_THRESHOLD)
            /\ cells[c].trail_km = SumShares(TouchingCell(c))
            /\ cells[c].covered_km =
                   SumShares({i \in TouchingCell(c) :
                                 FracGe(coverage[i].coverage_pct, COVERED_THRESHOLD)})
            /\ cells[c].visited => cells[c].has_trail
            /\ FracGe(cells[c].trail_km, cells[c].covered_km)
            /\ ~cells[c].visited => cells[c].covered_km = <<0, 1>>

\* C20's case: a cell that a covered and an uncovered segment touch.
C20_Witness ==
    /\ pc = "gridded"
    /\ \E c \in DOMAIN cells :
           /\ cells[c].visited
           /\ cells[c].covered_km # cells[c].trail_km
           /\ cells[c].covered_km # <<0, 1>>

\* Sample p = (lat, lon) lies in the box and in the rectangle of the cell
\* in row `row` and column `col` of the grid (south and west edge included)
InCellRect(p, row, col) ==
    /\ ~OutsideBox(p)
    /\ grid_config.origin_lat + row * grid_config.dlat <= p[1]
    /\ p[1] < grid_config.origin_lat + (row + 1) * grid_config.dlat
    /\ grid_config.origin_lon + col * grid_config.dlon <= p[2]
    /\ p[2] < grid_config.origin_lon + (col + 1) * grid_config.dlon

\* C21: segment_cells[i] is strictly ascending, its ids are cell ids below
\* rows * cols with id = row * cols + col, and it holds exactly the cells
\* of the grid in whose rectangle a 20 m sample of segment i lies.
C21_SegmentCellsSortedAndExact ==
    pc = "gridded" =>
        \A i \in DOMAIN segments :
            LET ids    == segment_cells[i]
                sample == GridSamples(i)
            IN  /\ \A k \in DOMAIN ids : k > 1 => ids[k - 1] < ids[k]
                /\ \A k \in DOMAIN ids :
                       /\ 0 <= ids[k]
                       /\ ids[k] < grid_config.rows * grid_config.cols
                       /\ cells[ids[k]].id = ids[k]
                       /\ cells[ids[k]].col < grid_config.cols
                       /\ cells[ids[k]].row < grid_config.rows
                       /\ ids[k] = cells[ids[k]].row * grid_config.cols + cells[ids[k]].col
                /\ \A c \in DOMAIN cells :
                       (\E k \in DOMAIN ids : ids[k] = c)
                           <=> \E j \in DOMAIN sample :
                                   InCellRect(sample[j], cells[c].row, cells[c].col)

\* C21's case: a segment with samples in two or more cells and one outside the
\* box.
C21_Witness ==
    /\ pc = "gridded"
    /\ \E i \in DOMAIN segments :
           /\ Len(segment_cells[i]) >= 2
           /\ segment_cells[i][1] > 0
           /\ \E j \in DOMAIN GridSamples(i) : OutsideBox(GridSamples(i)[j])

\* C25 as the claim states it: every sample of a segment that lies in the
\* bounding box, its edges included, lies in the rectangle of a cell of the
\* grid that is among the segment's cells.
C25_AsStated ==
    pc = "gridded" =>
        \A i \in DOMAIN segments :
            LET sample == GridSamples(i)
            IN  \A j \in DOMAIN sample :
                    ~OutsideBox(sample[j]) =>
                        \E k \in DOMAIN segment_cells[i] :
                            InCellRect(sample[j], cells[segment_cells[i][k]].row,
                                       cells[segment_cells[i][k]].col)

\* C17 as the claim states it: every cell of the returned GridResult.cells
\* has has_trail.
C17_AsStated ==
    pc = "gridded" => \A c \in DOMAIN cells : cells[c].has_trail

\* ------------------------------------------------ export and render properties

\* Segment i's coverage fraction is at least 0.5
Covered(i) == 2 * coverage[i].coverage_pct[1] >= coverage[i].coverage_pct[2]

\* The length in km of the covered segments
CoveredKm == FracSum([i \in DOMAIN segments |->
                         IF Covered(i) THEN LengthKm(i) ELSE Frac(0, 1)])

\* The paths of the overlay drawn for segment i
PathsOf(i) == {k \in DOMAIN Unwrap(svg).paths : Unwrap(svg).paths[k].seg = i}

\* C12: every consumer takes a segment for covered exactly when its
\* coverage fraction is at least 0.5: the statistics of compute_coverage,
\* of export_json and of the overlay count the same covered segments and
\* kilometres, compute_grid marks the cells of a segment visited and adds
\* to their covered_km exactly for the covered segments, export writes
\* "covered" accordingly, and the overlay draws every segment once, in
\* pass 2 exactly when it is covered.
C12_CoveredClassificationShared ==
    (pc = "exported" /\ IsSome(svg)) =>
        /\ cov_stats.covered_count = Cardinality({i \in DOMAIN segments : Covered(i)})
        /\ cov_stats.covered_km = CoveredKm
        /\ Unwrap(data_json).covered_seg_km = CoveredKm
        /\ Unwrap(svg).covered_km = CoveredKm
        /\ \A c \in DOMAIN cells :
               /\ cells[c].visited <=> \E i \in TouchingCell(c) : Covered(i)
               /\ cells[c].covered_km = SumShares({i \in TouchingCell(c) : Covered(i)})
        /\ \A i \in DOMAIN segments :
               /\ Unwrap(data_json).segments[i].covered <=> Covered(i)
               /\ Cardinality(PathsOf(i)) = 1
               /\ \A k \in PathsOf(i) :
                      Unwrap(svg).paths[k].stroke = IF Covered(i) THEN "#FF4500" ELSE "white"

\* C12's case: exported and rendered, a segment at exactly 0.5 and an
\* uncovered one that touch the same cell.
C12_Witness ==
    /\ pc = "exported"
    /\ IsSome(svg)
    /\ \E i, j \in Touching :
           /\ coverage[i].coverage_pct = COVERED_THRESHOLD
           /\ ~Covered(j)
           /\ \E c \in DOMAIN cells : {i, j} \subseteq TouchingCell(c)

\* The ids of the cell features exported
ExportedIds == {Unwrap(data_json).cells[k].id : k \in DOMAIN Unwrap(data_json).cells}

\* C16: a cell that no segment touches is in its default state after
\* compute_grid, and the cell features of the export are, once each, the
\* cells with has_trail, which are the cells some segment touches.
C16_UntouchedCellsDefaultAndNotExported ==
    pc = "exported" =>
        /\ \A c \in DOMAIN cells :
               TouchingCell(c) = {} =>
                   /\ ~cells[c].has_trail
                   /\ ~cells[c].visited
                   /\ cells[c].trail_km = <<0, 1>>
                   /\ cells[c].covered_km = <<0, 1>>
                   /\ cells[c].segment_ids = <<>>
        /\ ExportedIds = {c \in DOMAIN cells : cells[c].has_trail}
        /\ ExportedIds = {c \in DOMAIN cells : TouchingCell(c) # {}}
        /\ Len(Unwrap(data_json).cells) = Cardinality(ExportedIds)
        /\ \A k \in DOMAIN Unwrap(data_json).cells : Unwrap(data_json).cells[k].has_trail

\* C16's case: an export of a grid with touched cells and untouched ones.
C16_Witness ==
    /\ pc = "exported"
    /\ \E c, e \in DOMAIN cells :
           /\ TouchingCell(c) = {}
           /\ TouchingCell(e) # {}
           /\ c < e
    /\ Len(Unwrap(data_json).cells) >= 2

\* ------------------------------------------------------- matching properties

\* The trace points held by the index.
IndexedPoints ==
    UNION {{gps_index.cells[c][i] : i \in DOMAIN gps_index.cells[c]} :
              c \in DOMAIN gps_index.cells}

\* The samples (lat, lon) of segment i.
Samples(i) == Discretize(segments[i].geometry, TRAIL_STEP_M)

\* The square of the distance in metres of sample q and trace point p.
Dist2(q, p) == (q[1] - p[1]) * (q[1] - p[1]) + (q[2] - p[2]) * (q[2] - p[2])

\* C8: with the index and the segments fixed, a larger match radius keeps
\* every matched sample matched and lowers no segment's coverage fraction.
C8_CoverageMonotoneInRadius ==
    [][(pc = "matched" /\ pc' = "matched" /\ radius' >= radius
           /\ gps_index' = gps_index /\ segments' = segments) =>
        \A i \in DOMAIN segments :
            /\ \A k \in DOMAIN sample_hits[i] : sample_hits[i][k] => sample_hits'[i][k]
            /\ FracGe(coverage'[i].coverage_pct, coverage[i].coverage_pct)]_vars

\* At the source's radius a sample is matched that half the radius misses.
C8_Witness ==
    /\ pc = "matched"
    /\ radius = MATCH_THRESHOLD_M
    /\ \E i \in DOMAIN segments : \E k \in DOMAIN sample_hits[i] :
            /\ sample_hits[i][k]
            /\ ~HasPointWithin(gps_index, Samples(i)[k][1], Samples(i)[k][2],
                               MATCH_THRESHOLD_M \div 2)
            /\ FracGe(coverage[i].coverage_pct, COVERED_THRESHOLD)

\* C9: a trace point at exactly the radius from a sample makes the sample a
\* match, and a sample is a match only if a trace point lies within the
\* radius.
C9_RadiusInclusive ==
    pc = "matched" =>
        LET points == IndexedPoints
        IN  \A i \in DOMAIN segments :
                LET sample == Samples(i)
                IN  \A k \in DOMAIN sample_hits[i] :
                        /\ (\E p \in points : Dist2(sample[k], p) = radius * radius)
                               => sample_hits[i][k]
                        /\ sample_hits[i][k]
                               => \E p \in points : Dist2(sample[k], p) <= radius * radius

\* A sample is matched whose nearest trace point is at exactly 10 m.
C9_Witness ==
    /\ pc = "matched"
    /\ radius = MATCH_THRESHOLD_M
    /\ \E i \in DOMAIN segments : \E k \in DOMAIN sample_hits[i] :
            /\ sample_hits[i][k]
            /\ \A p \in IndexedPoints : Dist2(Samples(i)[k], p) >= radius * radius

\* The number of samples of segment i with a trace point within the radius
MatchedCount(i) ==
    LET points == IndexedPoints
        sample == Samples(i)
    IN  Cardinality({k \in DOMAIN sample :
                        \E p \in points : Dist2(sample[k], p) <= radius * radius})

\* C11: every segment's coverage fraction is the number of its samples with
\* a trace point within the match radius divided by the number of its
\* samples, 0.0 when it has no samples, and a number in [0, 1] (no NaN, no
\* infinity).
C11_CoverageIsMatchedOverTotal ==
    pc = "matched" =>
        \A i \in DOMAIN segments :
            /\ coverage[i].coverage_pct =
                   IF Samples(i) = <<>> THEN <<0, 1>>
                   ELSE Frac(MatchedCount(i), Len(Samples(i)))
            /\ coverage[i].coverage_pct[2] > 0
            /\ 0 <= coverage[i].coverage_pct[1]
            /\ coverage[i].coverage_pct[1] <= coverage[i].coverage_pct[2]

\* C11's case: a segment some but not all of whose samples are matched,
\* with a fraction below the threshold.
C11_Witness ==
    /\ pc = "matched"
    /\ \E i \in DOMAIN segments :
           /\ 0 < MatchedCount(i)
           /\ 2 * MatchedCount(i) < Len(Samples(i))
           /\ coverage[i].coverage_pct = Frac(MatchedCount(i), Len(Samples(i)))

\* The whole-metre positions within the match radius of sample q
Around(q) ==
    {p \in ((q[1] - MATCH_THRESHOLD_M)..(q[1] + MATCH_THRESHOLD_M))
              \X ((q[2] - MATCH_THRESHOLD_M)..(q[2] + MATCH_THRESHOLD_M)) :
        Dist2(q, p) <= MATCH_THRESHOLD_M * MATCH_THRESHOLD_M}

\* The cell key of p is one of the 9 keys around the cell key of q.
InNeighbourhood(q, p) ==
    LET cq == LatLonToCell(q[1], q[2])
        cp == LatLonToCell(p[1], p[2])
    IN  /\ cp[1] - cq[1] \in {-1, 0, 1}
        /\ cp[2] - cq[2] \in {-1, 0, 1}

\* The whole-metre positions (lat, lon) of the frame the segments and the
\* tracks lie in
FramePositions == (0..(MaxRow * Pitch)) \X (0..Pitch)

\* Every position within the match radius of a position of the frame has
\* its cell key among the 9 keys around that position's.
KeysWithinRadiusAreNeighbours ==
    \A q \in FramePositions : \A p \in Around(q) : InNeighbourhood(q, p)

\* C22: at the source's radius of 10 m and index cell size of 20 m,
\* has_point_within of a sample is true exactly when an indexed trace point
\* lies within the radius of it, and every position within the radius of
\* a query position, indexed or not, has its cell key among the 9 keys
\* around the query position's.
C22_NoFalseNegatives ==
    (pc = "matched" /\ radius = MATCH_THRESHOLD_M) =>
        LET points == IndexedPoints
        IN  \A i \in DOMAIN segments :
                LET sample == Samples(i)
                IN  \A k \in DOMAIN sample :
                        /\ HasPointWithin(gps_index, sample[k][1], sample[k][2],
                                          MATCH_THRESHOLD_M)
                               <=> \E p \in points :
                                       Dist2(sample[k], p)
                                           <= MATCH_THRESHOLD_M * MATCH_THRESHOLD_M
                        /\ sample[k] \in FramePositions
                        /\ KeysWithinRadiusAreNeighbours

\* C22's case: a sample is matched by a trace point of another index cell
\* only, one with a smaller key, and another sample has no trace point
\* within the radius.
C22_Witness ==
    /\ pc = "matched"
    /\ radius = MATCH_THRESHOLD_M
    /\ \E i \in DOMAIN segments : \E k \in DOMAIN Samples(i) :
           LET q == Samples(i)[k]
           IN  /\ sample_hits[i][k]
               /\ \A p \in IndexedPoints :
                      Dist2(q, p) <= MATCH_THRESHOLD_M * MATCH_THRESHOLD_M
                          => LatLonToCell(p[1], p[2])[1] < LatLonToCell(q[1], q[2])[1]
    /\ \E i \in DOMAIN segments : \E k \in DOMAIN sample_hits[i] :
           ~sample_hits[i][k]

\* The sequence s back to front
Reversed(s) == [k \in DOMAIN s |-> s[Len(s) + 1 - k]]

\* The length in metres of a polyline of lattice edges
RECURSIVE LatticeLength(_)
LatticeLength(coords) ==
    IF Len(coords) < 2 THEN 0
    ELSE Abs(CoordX(coords[2]) - CoordX(coords[1]))
           + Abs(CoordY(coords[2]) - CoordY(coords[1])) + LatticeLength(Tail(coords))

\* A segment put before the others
OneMoreSegment == [geometry |-> << <<0, 0>>, <<Pitch, 0>>, <<Pitch, Pitch>> >>]

\* C19: compute_coverage returns one entry per segment, entry i being what
\* it returns for segment i alone with the same activities, and what it
\* returns for it when the segments are given back to front after a
\* segment more; its length is the length of segment i.
C19_CoverageEntryPerSegment ==
    pc = "matched" =>
        LET other == ComputeCoverage(<<OneMoreSegment>> \o Reversed(segments),
                                     gps_index, radius)
        IN  /\ Len(coverage) = Len(segments)
            /\ \A i \in DOMAIN segments :
                   /\ coverage[i] = ComputeCoverage(<<segments[i]>>, gps_index, radius)[1]
                   /\ coverage[i] = other[Len(segments) + 2 - i]
                   /\ coverage[i].length_m = LatticeLength(segments[i].geometry)
            /\ gps_index = BuildGpsIndex(activities)

\* C19's case: two segments of different lengths and fractions.
C19_Witness ==
    /\ pc = "matched"
    /\ Len(segments) = 2
    /\ coverage[1].length_m # coverage[2].length_m
    /\ coverage[1].coverage_pct # coverage[2].coverage_pct
    /\ coverage[2].coverage_pct # Frac(0, 1)

\* A way split at a junction into segment 1 and segment 2, matched with the
\* source's radius.
SplitScenario ==
    /\ pc = "matched"
    /\ radius = MATCH_THRESHOLD_M
    /\ Len(segments) = 2
    /\ segments[1].geometry[Len(segments[1].geometry)] = segments[2].geometry[1]

\* The track passes within 5 m of every sample of segment 1.
TrackAlongSegment1 ==
    \A k \in DOMAIN Samples(1) : \E p \in IndexedPoints : Dist2(Samples(1)[k], p) <= 25

\* The track is nowhere near segment 2 beyond the junction it shares with
\* segment 1: it is farther than 10 m from every other sample of segment 2.
TrackAwayFromSegment2 ==
    \A k \in DOMAIN Samples(2) :
        k > 1 => \A p \in IndexedPoints : Dist2(Samples(2)[k], p) > 100

WayIndices == {e \in 1..Len(elements) : elements[e].elem_type = "way"}

\* The ways that pass validation.
ValidIndices ==
    {e \in WayIndices :
        /\ IsSome(elements[e].geometry) /\ IsSome(elements[e].nodes)
        /\ Len(Unwrap(elements[e].geometry)) >= 2
        /\ Len(Unwrap(elements[e].nodes)) = Len(Unwrap(elements[e].geometry))}

\* The positions <<e, i>> of the node arrays of all ways.
NodePositions ==
    UNION {{<<e, i>> : i \in 1..Len(NodesOf(elements[e]))} : e \in WayIndices}

\* How often node id occurs in the node arrays of all ways.
Occurrences(id) ==
    Cardinality({p \in NodePositions : NodesOf(elements[p[1]])[p[2]] = id})

\* The node ids of the response.
NodeIds == {NodesOf(elements[p[1]])[p[2]] : p \in NodePositions}

\* In how many ways node id occurs.
WaysWith(id) ==
    {e \in WayIndices :
        IsSome(elements[e].nodes)
        /\ \E i \in 1..Len(Unwrap(elements[e].nodes)) : Unwrap(elements[e].nodes)[i] = id}

WayNodes(e) == Unwrap(elements[e].nodes)

\* The (lon, lat) sequence of way e.
WayCoords(e) ==
    [i \in 1..Len(Unwrap(elements[e].geometry)) |->
        <<Unwrap(elements[e].geometry)[i].lon, Unwrap(elements[e].geometry)[i].lat>>]

\* The segments cut from way e, in output order (the points of element e
\* are the ones with lon = e).
SegmentsOf(e) == SelectSeq(segments, LAMBDA sg : sg.geometry[1][1] = e)

\* First index, last index and the interior indices that hold a junction.
CutPoints(e) ==
    {1, Len(WayNodes(e))}
    \cup {i \in 2..(Len(WayNodes(e)) - 1) : Occurrences(WayNodes(e)[i]) >= 2}

\* The j-th smallest element of a set of numbers.
Nth(S, j) == CHOOSE c \in S : Cardinality({d \in S : d < c}) = j - 1

\* C1: every valid way is cut at exactly its interior junction indices: k
\* such indices give k+1 segments, the j-th running from one cut index to the
\* next inclusive (one segment equal to the whole geometry when k = 0).
C1_CutAtInteriorJunctions ==
    pc = "parsed" =>
        \A e \in ValidIndices :
            /\ Len(SegmentsOf(e)) = Cardinality(CutPoints(e)) - 1
            /\ \A j \in 1..Len(SegmentsOf(e)) :
                    SegmentsOf(e)[j].geometry =
                        SubSeq(WayCoords(e), Nth(CutPoints(e), j), Nth(CutPoints(e), j + 1))

\* The 5-node way sharing node 3 has been cut into [1,2,3] and [3,4,5].
C1_Witness ==
    /\ pc = "parsed"
    /\ elements = ScenarioElements
    /\ Len(SegmentsOf(1)) = 2
    /\ segments[1].geometry = << <<1, 1>>, <<1, 2>>, <<1, 3>> >>
    /\ segments[2].geometry = << <<1, 3>>, <<1, 4>>, <<1, 5>> >>

\* The segments of a way joined in order, the first point of every segment
\* after the first dropped.
RECURSIVE Joined(_)
Joined(segs) ==
    IF segs = <<>> THEN <<>>
    ELSE IF Len(segs) = 1 THEN Head(segs).geometry
    ELSE Joined(SubSeq(segs, 1, Len(segs) - 1)) \o Tail(segs[Len(segs)].geometry)

\* C2: the segments of a valid way, joined in output order without the
\* repeated junction points, are the way's coordinate sequence.
C2_SegmentsJoinToWay ==
    pc = "parsed" => \A e \in ValidIndices : Joined(SegmentsOf(e)) = WayCoords(e)

\* A way has been cut into three segments.
C2_Witness ==
    pc = "parsed" /\ \E e \in ValidIndices : Len(SegmentsOf(e)) >= 3

\* The node id at a point of a segment (point <<e, i>> is point i of way e).
NodeAt(pt) == WayNodes(pt[1])[pt[2]]

\* C3: every segment has at least 2 points and no node id that occurs two
\* or more times across all ways lies strictly inside a segment.
C3_NoSegmentCrossesJunction ==
    pc = "parsed" =>
        \A s \in 1..Len(segments) :
            /\ Len(segments[s].geometry) >= 2
            /\ \A p \in 2..(Len(segments[s].geometry) - 1) :
                    Occurrences(NodeAt(segments[s].geometry[p])) < 2

\* A way with a junction inside it has a segment of three points or more.
C3_Witness ==
    /\ pc = "parsed"
    /\ \E s \in 1..Len(segments) :
            /\ Len(segments[s].geometry) >= 3
            /\ Len(SegmentsOf(segments[s].geometry[1][1])) >= 2

Malformed ==
    {e \in WayIndices :
        /\ IsSome(elements[e].geometry)
        /\ \/ Len(Unwrap(elements[e].geometry)) < 2
           \/ /\ IsSome(elements[e].nodes)
              /\ Len(Unwrap(elements[e].nodes)) # Len(Unwrap(elements[e].geometry))}

\* The response with the geometry of element e absent.
WithoutGeometry(e) == [elements EXCEPT ![e].geometry = None]

\* C5: a malformed way yields no trail and no segment, parsing returns Ok,
\* and trails and segments are those of the response in which the way has
\* no geometry.
C5_MalformedWayDropped ==
    pc = "parsed" /\ is_json =>
        /\ result = "Ok"
        /\ \A e \in Malformed :
                /\ \A t \in 1..Len(trails) : trails[t].id # e
                /\ SegmentsOf(e) = <<>>
                /\ segments = ParseOverpassJson(is_json, WithoutGeometry(e), 0).segments
                /\ trails = ParseOverpassJson(is_json, WithoutGeometry(e), 0).trails

\* A way whose lists differ in length was parsed next to a way that was cut.
C5_Witness ==
    /\ pc = "parsed"
    /\ result = "Ok"
    /\ \E e \in Malformed :
            /\ IsSome(elements[e].nodes)
            /\ Len(Unwrap(elements[e].geometry)) >= 2
    /\ Len(segments) >= 2

\* The ways that fail validation and yield nothing.
DroppedIndices == WayIndices \ ValidIndices

\* Node i of the valid way e occurs nowhere else in a valid way, and occurs
\* in the node list of a dropped way.
SharedOnlyWithDropped(e, i) ==
    /\ \A v \in ValidIndices : \A k \in 1..Len(WayNodes(v)) :
           WayNodes(v)[k] = WayNodes(e)[i] => (v = e /\ k = i)
    /\ \E w \in DroppedIndices : \E k \in 1..Len(NodesOf(elements[w])) :
           NodesOf(elements[w])[k] = WayNodes(e)[i]

\* Way e is cut at its point i: one of its segments ends there and the next
\* starts there.
CutAt(e, i) ==
    \E j \in 1..(Len(SegmentsOf(e)) - 1) :
        /\ SegmentsOf(e)[j].geometry[Len(SegmentsOf(e)[j].geometry)] = WayCoords(e)[i]
        /\ SegmentsOf(e)[j + 1].geometry[1] = WayCoords(e)[i]

\* C24: the node ids of dropped ways count in junction detection: an
\* interior node of a valid way that occurs besides only in dropped ways is
\* a shared node and the way is cut there, while the dropped ways yield no
\* segment and no segment of another way holds that node.
C24_DroppedWaysCountAsJunctions ==
    (pc = "parsed" /\ result = "Ok") =>
        /\ \A w \in DroppedIndices : SegmentsOf(w) = <<>>
        /\ \A e \in ValidIndices : \A i \in 2..(Len(WayNodes(e)) - 1) :
               SharedOnlyWithDropped(e, i) =>
                   /\ WayNodes(e)[i] \in shared_nodes
                   /\ CutAt(e, i)
                   /\ \A s \in 1..Len(segments) :
                          \A p \in 1..Len(segments[s].geometry) :
                              NodeAt(segments[s].geometry[p]) = WayNodes(e)[i]
                                  => segments[s].geometry[p] = WayCoords(e)[i]

\* C24's case: a way of three nodes is cut at its middle node, which occurs
\* besides only in a way dropped for its missing geometry.
C24_Witness ==
    /\ pc = "parsed"
    /\ result = "Ok"
    /\ \E e \in ValidIndices : \E i \in 2..(Len(WayNodes(e)) - 1) :
           /\ SharedOnlyWithDropped(e, i)
           /\ CutAt(e, i)
           /\ Len(SegmentsOf(e)) = Len(segments)
           /\ \E w \in DroppedIndices : elements[w].geometry = None

====
